---- MODULE Spec2Model ----
(***************************************************************************)
(* Movie shooting locations scraper (src/usr/src/app/src/main.js).         *)
(*                                                                         *)
(* One page run of extractFromCheerio, split at its await points: the raw  *)
(* wikitext fetch, every dataset.pushData and the final kv.setValue.       *)
(* Texts are TLA+ strings; the pure helpers of main.js are operators over  *)
(* them, written the way the JavaScript (and its regular expressions)      *)
(* computes them.                                                          *)
(***************************************************************************)
EXTENDS Integers, Sequences, FiniteSets, TLC

(***************************************************************************)
(* Characters and JavaScript string primitives                             *)
(***************************************************************************)

\* s[i] of a JavaScript string (1-based here); "" outside the string, where
\* a regex class never matches
Char(s, i) == IF i >= 1 /\ i <= Len(s) THEN SubSeq(s, i, i) ELSE ""

\* the characters of s from index from to index to; "" when there are none
Slice(s, from, to) ==
    IF from >= 1 /\ from <= to /\ to <= Len(s) THEN SubSeq(s, from, to) ELSE ""

\* the members of the regex class \s that occur in the modelled texts
WsChars == {" ", "\n", "\t"}

DigitChars == {"0", "1", "2", "3", "4", "5", "6", "7", "8", "9"}

UpperChars == "ABCDEFGHIJKLMNOPQRSTUVWXYZ"

LowerChars == "abcdefghijklmnopqrstuvwxyz"

\* String.prototype.toLowerCase on one character
LowerChar(c) ==
    IF \E k \in 1..Len(UpperChars) : Char(UpperChars, k) = c
    THEN Char(LowerChars, CHOOSE k \in 1..Len(UpperChars) : Char(UpperChars, k) = c)
    ELSE c

\* the concatenation of the strings parts[lo..hi], in order
RECURSIVE ConcatRange(_, _, _)
ConcatRange(parts, lo, hi) ==
    IF lo > hi THEN ""
    ELSE IF lo = hi THEN parts[lo]
    ELSE LET mid == (lo + hi) \div 2
         IN  ConcatRange(parts, lo, mid) \o ConcatRange(parts, mid + 1, hi)

ConcatAll(parts) == ConcatRange(parts, 1, Len(parts))

\* String.prototype.toLowerCase
toLowerCase(s) == ConcatAll([i \in 1..Len(s) |-> LowerChar(Char(s, i))])

\* the value of a decimal digit character
DigitVal(c) == CHOOSE d \in 0..9 : Char("0123456789", d + 1) = c

\* whether pat occurs in s at index i
MatchAt(s, i, pat) ==
    /\ i >= 1
    /\ i + Len(pat) - 1 <= Len(s)
    /\ SubSeq(s, i, i + Len(pat) - 1) = pat

\* String.prototype.includes
includes(s, pat) == \E i \in 1..(Len(s) + 1) : MatchAt(s, i, pat)

\* first index >= i whose character is outside class (Len(s)+1 when none):
\* the end of a greedy run class* started at i
SkipWhile(s, i, class) ==
    IF i > Len(s) THEN i
    ELSE IF \A j \in i..Len(s) : Char(s, j) \in class THEN Len(s) + 1
    ELSE CHOOSE j \in i..Len(s) :
             Char(s, j) \notin class /\ \A k \in i..(j - 1) : Char(s, k) \in class

\* last index <= i whose character is outside class (0 when none)
SkipBack(s, i, class) ==
    IF \A j \in 1..i : Char(s, j) \in class THEN 0
    ELSE CHOOSE j \in 1..i :
             Char(s, j) \notin class /\ \A k \in (j + 1)..i : Char(s, k) \in class

\* first index >= i whose character is in stop (Len(s)+1 when none): the end
\* of a greedy run [^stop]* started at i
SkipUntil(s, i, stop) ==
    IF i > Len(s) THEN i
    ELSE IF \A j \in i..Len(s) : Char(s, j) \notin stop THEN Len(s) + 1
    ELSE CHOOSE j \in i..Len(s) :
             Char(s, j) \in stop /\ \A k \in i..(j - 1) : Char(s, k) \notin stop

\* String.prototype.trim
trim(s) ==
    LET a == SkipWhile(s, 1, WsChars)
        b == SkipBack(s, Len(s), WsChars)
    IN  IF a > b THEN "" ELSE SubSeq(s, a, b)

\* loc.replace(/\s+/g, ' '): the first character of every run of whitespace
\* becomes one space and the rest of the run goes
CollapseWs(s) ==
    ConcatAll([i \in 1..Len(s) |->
                 IF Char(s, i) \notin WsChars THEN Char(s, i)
                 ELSE IF Char(s, i - 1) \in WsChars THEN "" ELSE " "])

\* the k-th smallest member of a set of indexes
Nth(P, k) == CHOOSE p \in P : Cardinality({q \in P : q < p}) = k - 1

\* the pieces a split leaves, given where each separator match starts (cuts)
\* and how far it reaches (ends[p] is the index after the match that starts at p)
PiecesOf(s, cuts, ends) ==
    [k \in 1..(Cardinality(cuts) + 1) |->
        LET from == IF k = 1 THEN 1 ELSE ends[Nth(cuts, k - 1)]
            to == IF k = Cardinality(cuts) + 1 THEN Len(s) ELSE Nth(cuts, k) - 1
        IN  IF from > to THEN "" ELSE SubSeq(s, from, to)]

\* String.prototype.split on a regex [seps]+ : every run of separators cuts once
SplitRuns(s, seps) ==
    LET cuts == {p \in 1..Len(s) : Char(s, p) \in seps /\ Char(s, p - 1) \notin seps}
    IN  PiecesOf(s, cuts, [p \in cuts |-> SkipWhile(s, p, seps)])

\* String.prototype.split on a one-character string: every separator cuts
SplitChar(s, sep) ==
    LET cuts == {p \in 1..Len(s) : Char(s, p) = sep}
    IN  PiecesOf(s, cuts, [p \in cuts |-> p + 1])

\* Array.prototype.join
join(parts, sep) ==
    ConcatAll([k \in 1..(2 * Len(parts) - 1) |->
                 IF k % 2 = 1 THEN parts[(k + 1) \div 2] ELSE sep])

\* Array.prototype.map(s => s.trim())
MapTrim(parts) == [k \in 1..Len(parts) |-> trim(parts[k])]

NonEmpty(s) == s # ""

\* Array.prototype.filter(Boolean) on an array of strings
FilterBoolean(parts) == SelectSeq(parts, NonEmpty)

\* Array.prototype.slice(0, n)
SliceTo(seq, n) == SubSeq(seq, 1, IF Len(seq) < n THEN Len(seq) ELSE n)

\* String.prototype.match without the g flag: the leftmost index that matches
FirstIndex(S) == CHOOSE i \in S : \A j \in S : i <= j

(***************************************************************************)
(* tryParseCoordinates                                                     *)
(*                                                                         *)
(* A coordinate is an integer count of 1/Unit degrees: exact for decimals  *)
(* of up to four fraction digits and for seconds of up to two, which is    *)
(* what the modelled texts hold.  null is <<>>, a number v is <<v>>.       *)
(***************************************************************************)

Unit == 3600 * 100

Null == <<>>

RECURSIVE NatLoop(_, _, _)
NatLoop(s, i, acc) ==
    IF i > Len(s) THEN acc ELSE NatLoop(s, i + 1, 10 * acc + DigitVal(Char(s, i)))

\* the value of a run of digits
NatOf(s) == NatLoop(s, 1, 0)

RECURSIVE FracLoop(_, _, _, _)
FracLoop(s, i, weight, acc) ==
    IF i > Len(s) THEN acc
    ELSE FracLoop(s, i + 1, weight \div 10, acc + DigitVal(Char(s, i)) * (weight \div 10))

\* the value of the fraction digits s in units of 1/weight (digits beyond
\* the precision of weight count as 0): FracOf("5", 10) = 5, FracOf("25", 100) = 25
FracOf(s, weight) == FracLoop(s, 1, weight, 0)

\* parseFloat of a text matching -?\d{1,3}\.\d+
parseFloat(s) ==
    LET neg == Char(s, 1) = "-"
        from == IF neg THEN 2 ELSE 1
        dot == SkipWhile(s, from, DigitChars)
        mag == NatOf(SubSeq(s, from, dot - 1)) * Unit + FracOf(SubSeq(s, dot + 1, Len(s)), Unit)
    IN  IF neg THEN 0 - mag ELSE mag

\* Number of a text matching \d{1,2}(?:\.\d+)? , in units of 1/scale
NumberOf(s, scale) ==
    LET dot == SkipWhile(s, 1, DigitChars)
    IN  NatOf(SubSeq(s, 1, dot - 1)) * scale
          + (IF dot < Len(s) THEN FracOf(SubSeq(s, dot + 1, Len(s)), scale) ELSE 0)

(***************************************************************************)
(* The two patterns are matched left to right, one operator per step, each *)
(* step handing the index it reached to the next.  In both, the class that *)
(* may follow a greedy run is disjoint from the run's own class, so        *)
(* backtracking into a run never finds another match: a run is simply      *)
(* taken to its end.                                                       *)
(***************************************************************************)

\* (-?\d{1,3}\.\d+) from i: j is where the digits start, d the index of the
\* ".", e the index after the fraction digits
DecNumEnd(s, i, j, d, e) ==
    [ok |-> d - j >= 1 /\ d - j <= 3 /\ Char(s, d) = "." /\ e > d + 1,
     end |-> e,
     text |-> Slice(s, i, e - 1)]

DecNumFrac(s, i, j, d) == DecNumEnd(s, i, j, d, SkipWhile(s, d + 1, DigitChars))

DecNumInt(s, i, j) == DecNumFrac(s, i, j, SkipWhile(s, j, DigitChars))

DecNumAt(s, i) == DecNumInt(s, i, IF Char(s, i) = "-" THEN i + 1 ELSE i)

\* ,? after a run of whitespace that ended at k
AfterComma(s, k) == IF Char(s, k) = "," THEN k + 1 ELSE k

\* \s*[,\s]\s* and \s*,?\s* from e: whitespace, at most one comma, whitespace
SeparatorEnd(s, e) == SkipWhile(s, AfterComma(s, SkipWhile(s, e, WsChars)), WsChars)

DecPair(n1, m, n2) == [ok |-> n1.ok /\ m > n1.end /\ n2.ok, g1 |-> n1.text, g2 |-> n2.text]

DecSecond(s, n1, m) == DecPair(n1, m, DecNumAt(s, m))

DecFirst(s, n1) == DecSecond(s, n1, SeparatorEnd(s, n1.end))

\* /(-?\d{1,3}\.\d+)\s*[,\s]\s*(-?\d{1,3}\.\d+)/ anchored at index i
DecMatchAt(s, i) == DecFirst(s, DecNumAt(s, i))

\* the ASCII member of the minute class [′']
MinuteChars == {"'"}

\* the ASCII member of the second class [″"]
SecondChars == {"\""}

\* (\d{1,3})[°\s]+(\d{1,2})[′']\s*(\d{1,2}(?:\.\d+)?)?[″"]?\s*([hems]) from i:
\* a ends the degrees, b the gap, c the minutes; d starts the seconds, f ends
\* them; h is the index of the hemisphere letter
DmsHalfEnd(s, i, hems, a, b, c, d, f, h) ==
    [ok |-> /\ a - i >= 1 /\ a - i <= 3
            /\ b > a
            /\ c - b >= 1 /\ c - b <= 2
            /\ Char(s, c) \in MinuteChars
            /\ Char(s, h) \in hems,
     end |-> h + 1,
     deg |-> Slice(s, i, a - 1),
     min |-> Slice(s, b, c - 1),
     sec |-> Slice(s, d, f - 1),
     hem |-> Char(s, h)]

\* [″"]?\s* from f
DmsQuote(s, i, hems, a, b, c, d, f) ==
    DmsHalfEnd(s, i, hems, a, b, c, d, f,
               SkipWhile(s, IF Char(s, f) \in SecondChars THEN f + 1 ELSE f, WsChars))

\* (?:\.\d+)? after the one or two second digits that end at e; a longer run
\* of digits leaves a digit where none can match, and so does a "." with no
\* digit after it: f stays at d or e and the hemisphere test fails
DmsSecFrac(s, i, hems, a, b, c, d, e) ==
    DmsQuote(s, i, hems, a, b, c, d,
             IF e - d > 2 THEN d
             ELSE IF e > d /\ Char(s, e) = "." /\ Char(s, e + 1) \in DigitChars
                  THEN SkipWhile(s, e + 1, DigitChars)
             ELSE e)

DmsSec(s, i, hems, a, b, c, d) ==
    DmsSecFrac(s, i, hems, a, b, c, d, SkipWhile(s, d, DigitChars))

DmsMin(s, i, hems, a, b, c) == DmsSec(s, i, hems, a, b, c, SkipWhile(s, c + 1, WsChars))

DmsGap(s, i, hems, a, b) == DmsMin(s, i, hems, a, b, SkipWhile(s, b, DigitChars))

DmsDeg(s, i, hems, a) == DmsGap(s, i, hems, a, SkipWhile(s, a, WsChars))

DmsHalfAt(s, i, hems) == DmsDeg(s, i, hems, SkipWhile(s, i, DigitChars))

DmsPair(lat, lon) == [ok |-> lat.ok /\ lon.ok, lat |-> lat, lon |-> lon]

DmsLon(s, lat) == DmsPair(lat, DmsHalfAt(s, SeparatorEnd(s, lat.end), {"E", "e", "W", "w"}))

\* the DMS pattern of tryParseCoordinates anchored at index i
DmsMatchAt(s, i) == DmsLon(s, DmsHalfAt(s, i, {"N", "n", "S", "s"}))

\* (deg + min / 60 + sec / 3600) * (hemisphere is neg ? -1 : 1)
DmsValue(half, neg) ==
    LET mag == NatOf(half.deg) * Unit + NatOf(half.min) * (Unit \div 60)
                 + (IF half.sec = "" THEN 0 ELSE NumberOf(half.sec, Unit \div 3600))
    IN  IF toLowerCase(half.hem) = neg THEN 0 - mag ELSE mag

DecCoords(m) ==
    [matched |-> TRUE, latitude |-> parseFloat(m.g1), longitude |-> parseFloat(m.g2)]

DmsCoords(m) ==
    [matched |-> TRUE, latitude |-> DmsValue(m.lat, "s"), longitude |-> DmsValue(m.lon, "w")]

\* dec and dms are the indexes where each pattern matches; String.match
\* takes the leftmost; the decimal pattern is tried first
CoordsFrom(text, dec, dms) ==
    IF dec # {} THEN DecCoords(DecMatchAt(text, FirstIndex(dec)))
    ELSE IF dms # {} THEN DmsCoords(DmsMatchAt(text, FirstIndex(dms)))
    ELSE [matched |-> FALSE, latitude |-> 0, longitude |-> 0]

tryParseCoordinates(text) ==
    CoordsFrom(text, {i \in 1..Len(text) : DecMatchAt(text, i).ok},
                     {i \in 1..Len(text) : DmsMatchAt(text, i).ok})

\* coords.latitude || null, with coords = tryParseCoordinates(locText) || {}:
\* undefined and every falsy number (0, -0) become null
OrNull(matched, v) == IF matched /\ v # 0 THEN <<v>> ELSE Null

(***************************************************************************)
(* extractPossibleLocationsFromText, findFilmingLocationsFromWikiWikitext  *)
(***************************************************************************)

\* the ASCII members of the separator class of the segmenter's split
SegmentSeps == {"\n", ";", "-"}

\* text.split(/[\n;...-]+/).map(s => s.trim()).filter(Boolean)
extractPossibleLocationsFromText(text) ==
    FilterBoolean(MapTrim(SplitRuns(text, SegmentSeps)))

SectionTitle == "filming locations"

\* /(?:(==+\s*Filming locations\s*==+)[\s\S]*?)(?==+)/i anchored at index i.
\* The lazy body stops before the next "="; when the text holds none, the
\* closing ==+ gives one "=" back to the lookahead, which needs three of them.
SectionAt(s, i) ==
    LET a == SkipWhile(s, i, {"="})
        b == SkipWhile(s, a, WsChars)
        c == b + Len(SectionTitle)
        d == SkipWhile(s, c, WsChars)
        e == SkipWhile(s, d, {"="})
        f == SkipUntil(s, e, {"="})
        head == /\ a - i >= 2
                /\ c - 1 <= Len(s)
                /\ toLowerCase(SubSeq(s, b, c - 1)) = SectionTitle
                /\ e - d >= 2
    IN  IF head /\ f <= Len(s) THEN [ok |-> TRUE, text |-> SubSeq(s, i, f - 1)]
        ELSE IF head /\ e - d >= 3 THEN [ok |-> TRUE, text |-> SubSeq(s, i, e - 2)]
        ELSE [ok |-> FALSE, text |-> ""]

\* the leftmost index >= i of a set of match starts (0 when none)
NextMatch(starts, i) ==
    IF \A j \in starts : j < i THEN 0
    ELSE CHOOSE j \in starts : j >= i /\ \A k \in starts : k >= i => j <= k

\* one step per match: copy the text up to it, drop it, resume after it
RECURSIVE StripBoldLoop(_, _, _)
StripBoldLoop(s, i, out) ==
    LET j == NextMatch({k \in 1..Len(s) : MatchAt(s, k, "'''")}, i)
    IN  IF j = 0 THEN out \o SubSeq(s, i, Len(s))
        ELSE StripBoldLoop(s, j + 3, out \o SubSeq(s, i, j - 1))

\* .replace(/'''/g, '')
StripBold(s) == StripBoldLoop(s, 1, "")

\* the index of the "}}" that closes /\{\{.*?\}\}/ opened at i (0 when none):
\* the first "}}" after it, unless a line break comes first
TemplateClose(s, i) ==
    LET ends == {j \in (i + 2)..Len(s) :
                    /\ MatchAt(s, j, "}}")
                    /\ \A k \in (i + 2)..(j - 1) : Char(s, k) # "\n"}
    IN  IF MatchAt(s, i, "{{") /\ ends # {} THEN FirstIndex(ends) ELSE 0

RECURSIVE StripTemplatesLoop(_, _, _)
StripTemplatesLoop(s, i, out) ==
    LET j == NextMatch({k \in 1..Len(s) : TemplateClose(s, k) > 0}, i)
    IN  IF j = 0 THEN out \o SubSeq(s, i, Len(s))
        ELSE StripTemplatesLoop(s, TemplateClose(s, j) + 2, out \o SubSeq(s, i, j - 1))

\* .replace(/\{\{.*?\}\}/g, '')
StripTemplates(s) == StripTemplatesLoop(s, 1, "")

\* the index of the "]" that closes /\[http[^\]]+\]/ opened at i (0 when none)
ExternalLinkClose(s, i) ==
    LET j == SkipUntil(s, i + 5, {"]"})
    IN  IF MatchAt(s, i, "[http") /\ j > i + 5 /\ j <= Len(s) THEN j ELSE 0

RECURSIVE StripExternalLoop(_, _, _)
StripExternalLoop(s, i, out) ==
    LET j == NextMatch({k \in 1..Len(s) : ExternalLinkClose(s, k) > 0}, i)
    IN  IF j = 0 THEN out \o SubSeq(s, i, Len(s))
        ELSE StripExternalLoop(s, ExternalLinkClose(s, j) + 1, out \o SubSeq(s, i, j - 1))

\* .replace(/\[http[^\]]+\]/g, '')
StripExternalLinks(s) == StripExternalLoop(s, 1, "")

\* /\[\[([^\]|]+)(?:\|([^\]]+))?\]\]/ anchored at index i: $1 is the target,
\* $2 the display text ("" when the group did not take part)
InternalLinkAt(s, i) ==
    LET a == i + 2
        b == SkipUntil(s, a, {"]", "|"})
        piped == Char(s, b) = "|"
        d == IF piped THEN SkipUntil(s, b + 1, {"]"}) ELSE b
        ok == /\ MatchAt(s, i, "[[")
              /\ b > a
              /\ piped => d > b + 1
              /\ MatchAt(s, d, "]]")
    IN  [ok |-> ok, end |-> d + 2,
         g1 |-> IF ok THEN SubSeq(s, a, b - 1) ELSE "",
         g2 |-> IF ok /\ piped THEN SubSeq(s, b + 1, d - 1) ELSE ""]

\* the replacement string '$2$1' of the internal-link rewrite
LinkReplacement(g1, g2) == g2 \o g1

RECURSIVE RewriteLinksLoop(_, _, _)
RewriteLinksLoop(s, i, out) ==
    LET j == NextMatch({k \in 1..Len(s) : InternalLinkAt(s, k).ok}, i)
        m == InternalLinkAt(s, j)
    IN  IF j = 0 THEN out \o SubSeq(s, i, Len(s))
        ELSE RewriteLinksLoop(s, m.end,
                              out \o SubSeq(s, i, j - 1) \o LinkReplacement(m.g1, m.g2))

\* .replace(/\[\[([^\]|]+)(?:\|([^\]]+))?\]\]/g, '$2$1')
RewriteLinks(s) == RewriteLinksLoop(s, 1, "")

MinLineLen == 5

MaxLineLen == 400

MaxWikiHits == 200

PlausibleLine(l) == Len(l) > MinLineLen /\ Len(l) < MaxLineLen

\* m[0] of wikitext.match(regex), as <<section>>, or Null when nothing matches
SectionOf(s) ==
    LET starts == {i \in 1..Len(s) : SectionAt(s, i).ok}
    IN  IF starts = {} THEN Null ELSE <<SectionAt(s, FirstIndex(starts)).text>>

\* the three replace calls that come before the internal-link rewrite
StripMarkup(section) == StripExternalLinks(StripTemplates(StripBold(section)))

\* cleaned.split('\n').map(l => l.trim()).filter(Boolean)
\*        .filter(l => l.length > 5 && l.length < 400).slice(0, 200)
HitsOf(cleaned) ==
    SliceTo(SelectSeq(FilterBoolean(MapTrim(SplitChar(cleaned, "\n"))), PlausibleLine),
            MaxWikiHits)

\* wikitext is Null or <<text>>
findFilmingLocationsFromWikiWikitext(wikitext) ==
    IF wikitext = Null \/ wikitext[1] = "" THEN <<>>
    ELSE IF SectionOf(wikitext[1]) = Null THEN <<>>
    ELSE HitsOf(RewriteLinks(StripMarkup(SectionOf(wikitext[1])[1])))

(***************************************************************************)
(* The page: its URL and the document Cheerio loaded                       *)
(*                                                                         *)
(* A document is the sequence of the body's child elements (blocks); a     *)
(* block may hold child elements of its own (the li of a ul, the td of a   *)
(* table).  An element is [name, id, cls, text]; a block adds kids.        *)
(***************************************************************************)

El(name, id, cls, text) == [name |-> name, id |-> id, cls |-> cls, text |-> text]

Blk(name, id, cls, text, kids) ==
    [name |-> name, id |-> id, cls |-> cls, text |-> text, kids |-> kids]

\* $(el).text() of a block: its own text, or its children's texts
TextOf(b) ==
    IF b.kids = <<>> THEN b.text
    ELSE join([k \in 1..Len(b.kids) |-> b.kids[k].text], "\n")

\* the concatenation of the sequences seqs[lo..hi], in order
RECURSIVE FlattenRange(_, _, _)
FlattenRange(seqs, lo, hi) ==
    IF lo > hi THEN <<>>
    ELSE IF lo = hi THEN seqs[lo]
    ELSE LET mid == (lo + hi) \div 2
         IN  FlattenRange(seqs, lo, mid) \o FlattenRange(seqs, mid + 1, hi)

Flatten(seqs) == FlattenRange(seqs, 1, Len(seqs))

\* every element of the document, in document order
Elements(doc) ==
    Flatten([b \in 1..Len(doc) |->
               <<El(doc[b].name, doc[b].id, doc[b].cls, TextOf(doc[b]))>> \o doc[b].kids])

\* /imdb\.com\/title\/.+\/locations/i.test(url)
IsImdbLocationsUrl(url) ==
    LET u == toLowerCase(url)
    IN  \E i \in 1..Len(u) :
            /\ MatchAt(u, i, "imdb.com/title/")
            /\ \E j \in (i + Len("imdb.com/title/") + 1)..Len(u) : MatchAt(u, j, "/locations")

\* new URL(url).hostname
hostname(url) ==
    LET a == CHOOSE i \in 1..Len(url) :
                 MatchAt(url, i, "://") /\ \A k \in 1..(i - 1) : ~MatchAt(url, k, "://")
        b == SkipUntil(url, a + 3, {"/", "?", "#", ":"})
    IN  toLowerCase(SubSeq(url, a + 3, b - 1))

\* fetchWikipediaWikitext: whether it goes as far as fetch(apiUrl)
FetchIsSent(url) == includes(hostname(url), "wikipedia.org")

\* the guard of step 4: useWikipediaApi && url.includes('wikipedia.org')
WikiStepGuard(useApi, url) == useApi /\ includes(url, "wikipedia.org")

HeadingNames == {"h1", "h2", "h3", "h4", "h5", "h6"}

\* $('h2, h3, h4').filter(... .text().toLowerCase().includes('filming location'))
IsLocationHeading(b) ==
    /\ b.name \in {"h2", "h3", "h4"}
    /\ includes(toLowerCase(TextOf(b)), "filming location")

MaxSiblingSteps == 200

\* the while loop of one heading h: the text of its next siblings, up to the
\* next heading element or MaxSiblingSteps steps
Gathered(doc, h) ==
    LET stop == IF \A k \in (h + 1)..Len(doc) : doc[k].name \notin HeadingNames
                THEN Len(doc) + 1
                ELSE CHOOSE k \in (h + 1)..Len(doc) :
                         /\ doc[k].name \in HeadingNames
                         /\ \A j \in (h + 1)..(k - 1) : doc[j].name \notin HeadingNames
        last == IF stop - 1 < h + MaxSiblingSteps THEN stop - 1 ELSE h + MaxSiblingSteps
    IN  ConcatAll([k \in 1..(last - h) |-> "\n" \o TextOf(doc[h + k])])

\* strategy 1: the phrases under every "Filming location(s)" heading
DomHeadingLocations(doc) ==
    LET hs == {h \in 1..Len(doc) : IsLocationHeading(doc[h])}
    IN  Flatten([n \in 1..Cardinality(hs) |->
                   LET g == Gathered(doc, Nth(hs, n))
                   IN  IF trim(g) # "" THEN extractPossibleLocationsFromText(g) ELSE <<>>])

HasContainer(doc) == \E k \in 1..Len(Elements(doc)) : Elements(doc)[k].id = "filmingLocations"

\* LayoutGuard without its test of what strategy 1 found
LayoutGuardIgnoringHeadings(url, doc, locations) ==
    IsImdbLocationsUrl(url) \/ HasContainer(doc)

\* the guard of strategy 2
LayoutGuard(url, doc, locations) ==
    IsImdbLocationsUrl(url) \/ (HasContainer(doc) /\ Len(locations) = 0)

IsLayoutItem(e) ==
    e.name = "li" \/ e.cls \in {"ipl-zebra-list__item", "soda", "filming-location"}

TrimmedTexts(els) == [k \in 1..Len(els) |-> trim(els[k].text)]

\* $('li, .ipl-zebra-list__item, .soda, .filming-location').map(trim).get()
\*    .filter(Boolean)
LayoutCandidates(doc) == FilterBoolean(TrimmedTexts(SelectSeq(Elements(doc), IsLayoutItem)))

\* FallbackGuard without its test of what strategies 1 and 2 found
FallbackGuardAlways(locations) == TRUE

\* the guard of strategy 3
FallbackGuard(locations) == Len(locations) = 0

IsParagraphLike(e) == e.name \in {"p", "li", "td"}

\* /filming location|filming locations|locations used|location(s)?/i.test(p)
MatchesKeyword(p) ==
    LET q == toLowerCase(p)
    IN  \/ includes(q, "filming location")
        \/ includes(q, "filming locations")
        \/ includes(q, "locations used")
        \/ includes(q, "location")

\* strategy 3: every p, li, td text that holds a keyword
FallbackMatches(doc) ==
    SelectSeq(TrimmedTexts(SelectSeq(Elements(doc), IsParagraphLike)), MatchesKeyword)

\* MergeWiki with the concat the other way round
MergeWikiAppended(wikiLocations, locations) == locations \o wikiLocations

\* step 4's merge: locations = wikiLocations.concat(locations)
MergeWiki(wikiLocations, locations) ==
    IF Len(wikiLocations) > 0 THEN wikiLocations \o locations ELSE locations

(***************************************************************************)
(* Normalisation, records, audit snapshot                                  *)
(***************************************************************************)

MinTextLen == 3

\* loc.replace(/\s+/g, ' ').trim()
NormalizeText(loc) == trim(CollapseWs(loc))

\* AlreadySeen of a loop that never fills seen
AlreadySeenNever(seen, text) == FALSE

\* seen.has(text)
AlreadySeen(seen, text) == text \in seen

\* one iteration of the for loop over locations; st is [seen, normalized]
NormalizeStep(st, loc) ==
    LET text == NormalizeText(loc)
    IN  IF text = "" \/ Len(text) < MinTextLen THEN st
        ELSE IF AlreadySeen(st.seen, text) THEN st
        ELSE [seen |-> st.seen \cup {text}, normalized |-> Append(st.normalized, text)]

\* the iterations lo..hi of the loop, in order, from the loop state st (the
\* test on left only makes the state after iteration mid a value before
\* iteration mid + 1 starts)
RECURSIVE NormalizeRange(_, _, _, _)
NormalizeRange(locs, lo, hi, st) ==
    IF lo > hi THEN st
    ELSE IF lo = hi THEN NormalizeStep(st, locs[lo])
    ELSE LET mid == (lo + hi) \div 2
             left == NormalizeRange(locs, lo, mid, st)
         IN  IF Len(left.normalized) >= 0
             THEN NormalizeRange(locs, mid + 1, hi, left)
             ELSE left

\* the normalized array the loop leaves
Normalize(locs) ==
    NormalizeRange(locs, 1, Len(locs), [seen |-> {}, normalized |-> <<>>]).normalized

MaxRecords == 200

MaxAuditLocations == 500

\* RecordTexts with the audit snapshot's cap
RecordTextsAuditCap(norm) == SliceTo(norm, MaxAuditLocations)

\* normalized.slice(0, 200): the phrases that get a record
RecordTexts(norm) == SliceTo(norm, MaxRecords)

\* normalized.slice(0, 500): extracted_locations of the audit snapshot
AuditLocations(norm) == SliceTo(norm, MaxAuditLocations)

\* CommaParts without the filter(Boolean)
CommaPartsKeepingEmpty(locText) == MapTrim(SplitChar(locText, ","))

\* locText.split(',').map(s => s.trim()).filter(Boolean)
CommaParts(locText) == FilterBoolean(MapTrim(SplitChar(locText, ",")))

\* lines 183-191: city, region and country from the comma parts
FieldsOf(parts) ==
    [city |-> IF Len(parts) >= 1 THEN parts[1] ELSE "",
     region |-> IF Len(parts) >= 3 THEN parts[2] ELSE "",
     country |-> IF Len(parts) = 2 THEN parts[2]
                 ELSE IF Len(parts) >= 3 THEN join(SubSeq(parts, 3, Len(parts)), ", ")
                 ELSE ""]

DeriveFields(locText) == FieldsOf(CommaParts(locText))

\* lines 193-204: the record (movie_title, year, source_url and extracted_at
\* are left out: nothing below reads them)
RecordOf(locText, f, coords) ==
    [location_text |-> locText,
     city |-> f.city, region |-> f.region, country |-> f.country,
     latitude |-> OrNull(coords.matched, coords.latitude),
     longitude |-> OrNull(coords.matched, coords.longitude)]

\* the record pushed for one phrase
MakeRecord(locText) == RecordOf(locText, DeriveFields(locText), tryParseCoordinates(locText))

(***************************************************************************)
(* The pages and raw wikitexts a run may meet                              *)
(***************************************************************************)

\* how many list items the long listing page holds: more than both caps
BulkCount == 501

Li(text) == El("li", "", "", text)

WikipediaUrl == "https://en.wikipedia.org/wiki/Inception"

ImdbUrl == "https://www.imdb.com/title/tt1375666/locations"

OtherUrl == "https://example.com/films/heat"

\* 'wikipedia.org' occurs in the URL but not in its hostname
MentionUrl == "https://example.com/wiki?ref=wikipedia.org"

\* an article with a "Filming locations" section
ArticleDoc ==
    << Blk("h2", "", "", "Plot", <<>>),
       Blk("p", "", "", "A thief enters dreams.", <<>>),
       Blk("h2", "", "", "Filming locations", <<>>),
       Blk("p", "", "", "Paris, France; London, UK", <<>>),
       Blk("ul", "", "", "", << Li("Reykjavik, Iceland"), Li("Paris,  France") >>),
       Blk("h2", "", "", "Reception", <<>>),
       Blk("p", "", "", "Critics praised the locations used.", <<>>) >>

\* an article with no such section: only the paragraph scan finds anything
PlainDoc ==
    << Blk("p", "", "", "Principal photography began in 2009.", <<>>),
       Blk("p", "", "", "Shooting locations included Tokyo and Tangier.", <<>>),
       Blk("table", "", "", "",
           << El("td", "", "", "Location: Calgary, Alberta, Canada"),
              El("td", "", "", "Budget: 160 million") >>) >>

\* a listing page that also carries a matching heading
ListingDoc ==
    << Blk("h3", "", "", "Filming Locations", <<>>),
       Blk("div", "", "soda", "Tangier, Morocco", <<>>),
       Blk("div", "", "soda", "PARIS, FRANCE", <<>>),
       Blk("h4", "", "", "See also", <<>>),
       Blk("ul", "", "", "", << Li("Calgary, Alberta, Canada"), Li("Tangier, Morocco") >>) >>

\* a heading and a #filmingLocations container
ContainerDoc ==
    << Blk("h2", "", "", "Filming location", <<>>),
       Blk("p", "", "", "Los Angeles, California, USA", <<>>),
       Blk("h2", "", "", "Gallery", <<>>),
       Blk("div", "filmingLocations", "", "",
           << Li("Chicago, Illinois"), Li("Los Angeles, California, USA") >>) >>

\* a #filmingLocations container and no heading
ContainerOnlyDoc ==
    << Blk("div", "filmingLocations", "", "",
           << Li("Rome, Italy"), Li("   "), El("span", "", "filming-location", "Ostia") >>) >>

\* nothing any strategy finds
EmptyDoc == << Blk("p", "", "", "A heist thriller.", <<>>) >>

\* list items with coordinates, empty comma segments and near-duplicates
EdgeDoc ==
    << Blk("ul", "", "", "",
           << Li("Golden Gate Bridge, San Francisco, 37.8199, -122.4783"),
              Li("Null Island, 0.0, 12.5"),
              Li("Meridian Post, 51.4779, 0.0"),
              Li("Polar Station, 95.5, 10.25"),
              Li("Equator Camp 0 0'N 12 30'E"),
              Li("Harbour 37 46'29\"N 122 25'10\"W"),
              Li("Rome,, Lazio, Italy"),
              Li("Paris,"),
              Li(",,,"),
              Li("Paris, France"),
              Li("paris, france"),
              Li("Paris,\n   France"),
              Li("NY"),
              Li("Oslo") >>) >>

\* BulkCount distinct list items, then one repeated
BulkDoc ==
    << Blk("ul", "", "", "",
           [k \in 1..(BulkCount + 1) |->
               Li("Stage " \o ToString(IF k <= BulkCount THEN k ELSE 1))]) >>

Pages ==
    << [url |-> WikipediaUrl, doc |-> ArticleDoc],
       [url |-> WikipediaUrl, doc |-> PlainDoc],
       [url |-> ImdbUrl, doc |-> ListingDoc],
       [url |-> OtherUrl, doc |-> ContainerDoc],
       [url |-> OtherUrl, doc |-> ContainerOnlyDoc],
       [url |-> OtherUrl, doc |-> EmptyDoc],
       [url |-> ImdbUrl, doc |-> EdgeDoc],
       [url |-> ImdbUrl, doc |-> BulkDoc],
       [url |-> MentionUrl, doc |-> PlainDoc] >>

\* raw wikitexts a Wikipedia server may answer with
WikiTexts ==
    { "Intro\n== Filming locations ==\n* '''Paris''', [[France|the French Republic]]\n* [[London]] {{citation needed}}\n* [http://x.org site] Rome, Italy\n== Reception ==\nGood",
      "== Production ==\n=== Filming locations ===\nParis, France\n* [[Tokyo]] and [[Tangier|Tanger]]\n== Cast ==\n",
      "Intro only\n== Plot ==\nA thief enters dreams.",
      "=== Filming Locations ===\n* Rome, Italy\n",
      "" }

(***************************************************************************)
(* One page run of extractFromCheerio                                      *)
(***************************************************************************)

VARIABLES
    useWikipediaApi,      \* input.useWikipediaApi
    validateCoordinates,  \* input.validateCoordinates
    pc,                   \* where the handler is: idle, fetching, pushing,
                          \*   saving, done, failed
    page,                 \* the request being handled (an index of Pages, 0: none)
    locations,            \* the locations array
    domLocs,              \* what strategy 1 pushed into it
    layoutLocs,           \* what strategy 2 pushed into it
    fallbackLocs,         \* what strategy 3 pushed into it
    wikiLocations,        \* what step 4 put in front of it
    fetched,              \* how the raw-markup fetch ended: none, ok, notok,
                          \*   error, timeout
    wikitext,             \* what fetchWikipediaWikitext returned (Null or <<text>>)
    normalized,           \* the normalized array
    records,              \* what dataset.pushData received, in order
    audit                 \* the value kv.setValue stored (Null: nothing stored)

vars == << useWikipediaApi, validateCoordinates, pc, page, locations, domLocs,
           layoutLocs, fallbackLocs, wikiLocations, fetched, wikitext, normalized,
           records, audit >>

config == << useWikipediaApi, validateCoordinates >>

url == Pages[page].url

Init ==
    /\ useWikipediaApi \in BOOLEAN
    /\ validateCoordinates \in BOOLEAN
    /\ pc = "idle"
    /\ page = 0
    /\ locations = <<>>
    /\ domLocs = <<>>
    /\ layoutLocs = <<>>
    /\ fallbackLocs = <<>>
    /\ wikiLocations = <<>>
    /\ fetched = "none"
    /\ wikitext = Null
    /\ normalized = <<>>
    /\ records = <<>>
    /\ audit = Null

\* line 153: the locations array after strategy 3 pushed its matches
AfterFallback(dom, layout, fallback) ==
    [dom |-> dom, layout |-> layout, fallback |-> fallback,
     locations |-> dom \o layout \o fallback]

\* lines 145-154: strategy 3 on the array strategies 1 and 2 left
AfterLayout(doc, dom, layout) ==
    AfterFallback(dom, layout,
                  IF FallbackGuard(dom \o layout) THEN FallbackMatches(doc) ELSE <<>>)

\* lines 138-142: strategy 2 on the array strategy 1 left
AfterHeadings(u, doc, dom) ==
    AfterLayout(doc, dom, IF LayoutGuard(u, doc, dom) THEN LayoutCandidates(doc) ELSE <<>>)

\* lines 115-154: the three DOM strategies, in order, on one locations array
Strategies(u, doc) == AfterHeadings(u, doc, DomHeadingLocations(doc))

\* lines 179-206: the record loop starts, or has nothing to iterate
WithNormalized(norm) ==
    /\ normalized' = norm
    /\ pc' = IF Len(RecordTexts(norm)) > 0 THEN "pushing" ELSE "saving"

\* lines 168-176: the normalisation loop over the merged array
WithLocations(merged) ==
    /\ locations' = merged
    /\ WithNormalized(Normalize(merged))

\* lines 161-163: the merge of the markup phrases
WithWikiLocations(locs, wiki) ==
    /\ wikiLocations' = wiki
    /\ WithLocations(MergeWiki(wiki, locs))

\* lines 159-178: from the value fetchWikipediaWikitext returned to the first
\* await of the record loop
Resume(locs, text) ==
    /\ wikitext' = text
    /\ WithWikiLocations(locs, findFilmingLocationsFromWikiWikitext(text))

\* lines 103-158 on page p, whose strategies gave s: up to the fetch when
\* step 4 sends one, otherwise on to the record loop
Begin(p, s) ==
    /\ page' = p
    /\ domLocs' = s.dom
    /\ layoutLocs' = s.layout
    /\ fallbackLocs' = s.fallback
    /\ IF WikiStepGuard(useWikipediaApi, Pages[p].url) /\ FetchIsSent(Pages[p].url)
       THEN /\ pc' = "fetching"
            /\ locations' = s.locations
            /\ UNCHANGED << wikitext, wikiLocations, normalized >>
       ELSE Resume(s.locations, Null)

\* the handler starts on a page and runs to its first await
Start ==
    /\ pc = "idle"
    /\ \E p \in 1..Len(Pages) : Begin(p, Strategies(Pages[p].url, Pages[p].doc))
    /\ UNCHANGED << config, fetched, records, audit >>

\* fetch resolves with res.ok and res.text() gives the body
FetchOk ==
    /\ pc = "fetching"
    /\ \E body \in WikiTexts : Resume(locations, <<body>>)
    /\ fetched' = "ok"
    /\ UNCHANGED << config, page, domLocs, layoutLocs, fallbackLocs, records, audit >>

\* fetch resolves with !res.ok: fetchWikipediaWikitext returns null
FetchNotOk ==
    /\ pc = "fetching"
    /\ Resume(locations, Null)
    /\ fetched' = "notok"
    /\ UNCHANGED << config, page, domLocs, layoutLocs, fallbackLocs, records, audit >>

\* fetch or res.text() rejects: the catch returns null
FetchThrows ==
    /\ pc = "fetching"
    /\ Resume(locations, Null)
    /\ fetched' = "error"
    /\ UNCHANGED << config, page, domLocs, layoutLocs, fallbackLocs, records, audit >>

\* the server never answers: fetch has no timeout of its own, the await stays
\* pending, and the crawler's requestHandlerTimeoutSecs fails the request
HandlerTimeout ==
    /\ pc = "fetching"
    /\ pc' = "failed"
    /\ fetched' = "timeout"
    /\ UNCHANGED << config, page, locations, domLocs, layoutLocs, fallbackLocs,
                    wikiLocations, wikitext, normalized, records, audit >>

\* one iteration of the record loop: await dataset.pushData(record)
PushRecord ==
    /\ pc = "pushing"
    /\ records' = Append(records, MakeRecord(RecordTexts(normalized)[Len(records) + 1]))
    /\ pc' = IF Len(records) + 1 < Len(RecordTexts(normalized)) THEN "pushing" ELSE "saving"
    /\ UNCHANGED << config, page, locations, domLocs, layoutLocs, fallbackLocs,
                    wikiLocations, fetched, wikitext, normalized, audit >>

\* kv.setValue stores the audit snapshot
SaveAudit ==
    /\ pc = "saving"
    /\ audit' = << [url |-> url, extracted_locations |-> AuditLocations(normalized)] >>
    /\ pc' = "done"
    /\ UNCHANGED << config, page, locations, domLocs, layoutLocs, fallbackLocs,
                    wikiLocations, fetched, wikitext, normalized, records >>

\* kv.setValue throws: the catch logs a warning and the handler returns
SaveAuditFails ==
    /\ pc = "saving"
    /\ pc' = "done"
    /\ UNCHANGED << config, page, locations, domLocs, layoutLocs, fallbackLocs,
                    wikiLocations, fetched, wikitext, normalized, records, audit >>

Next ==
    \/ Start
    \/ FetchOk
    \/ FetchNotOk
    \/ FetchThrows
    \/ HandlerTimeout
    \/ PushRecord
    \/ SaveAudit
    \/ SaveAuditFails

Spec == Init /\ [][Next]_vars

(***************************************************************************)
(* Properties                                                              *)
(***************************************************************************)

Min(a, b) == IF a < b THEN a ELSE b

\* the record loop has run to its end
LoopDone == pc \in {"saving", "done"}

\* the four groups of candidate phrases in strategy priority order
PriorityOrder == wikiLocations \o domLocs \o layoutLocs \o fallbackLocs

\* C1 as stated: once the record loop has ended, the location_text values of
\* the records are the whole priority-ordered concatenation (markup, DOM
\* heading, layout, fallback), whitespace-normalized, without the phrases
\* shorter than 3 characters and without every repeat of an earlier phrase.
C1_AsStated ==
    LoopDone =>
        LET T == [i \in 1..Len(PriorityOrder) |-> NormalizeText(PriorityOrder[i])]
            kept == {i \in DOMAIN T : Len(T[i]) >= 3 /\ \A j \in 1..(i - 1) : T[j] # T[i]}
        IN  /\ Len(records) = Cardinality(kept)
            /\ \A i \in kept :
                  records[Cardinality({q \in kept : q <= i})].location_text = T[i]

\* C1 (amended): once the record loop has ended, the location_text values of
\* the records are the first min(n, 200) entries of that normalized,
\* deduplicated concatenation, n being its length: each kept phrase at the
\* rank of its first occurrence, markup phrases before all others.
C1_RecordOrder ==
    LoopDone =>
        LET T == [i \in 1..Len(PriorityOrder) |-> NormalizeText(PriorityOrder[i])]
            kept == {i \in DOMAIN T : Len(T[i]) >= 3 /\ \A j \in 1..(i - 1) : T[j] # T[i]}
        IN  /\ Len(records) = Min(Cardinality(kept), 200)
            /\ \A i \in kept :
                  Cardinality({q \in kept : q <= i}) <= 200 =>
                      records[Cardinality({q \in kept : q <= i})].location_text = T[i]

\* C1 witness: a finished run whose records come from markup phrases and DOM
\* heading phrases, one of the latter dropped as a repeat
C1_Witness ==
    /\ pc = "done"
    /\ Len(wikiLocations) > 0
    /\ Len(domLocs) > 0
    /\ Len(records) > Len(wikiLocations)
    /\ Len(records) < Len(wikiLocations) + Len(domLocs)

\* the record pushed last
LastRecord == records[Len(records)]

\* C2 as stated: no two records of a run have location_text values that are
\* equal after case-insensitive, whitespace-collapsed normalization.
C2_AsStated ==
    Len(records) > 0 =>
        \A i \in 1..(Len(records) - 1) :
            toLowerCase(NormalizeText(records[i].location_text))
                # toLowerCase(NormalizeText(LastRecord.location_text))

\* C2 (amended): no two records of a run have location_text values that are
\* equal after whitespace-collapsed (case-sensitive) normalization; every
\* record carries the normalized form itself.
C2_UniqueTexts ==
    Len(records) > 0 =>
        /\ NormalizeText(LastRecord.location_text) = LastRecord.location_text
        /\ \A i \in 1..(Len(records) - 1) :
              records[i].location_text # LastRecord.location_text

\* C2 witness: a finished run in which two candidates differed only in a run
\* of whitespace and two only in letter case; the records hold both cases
C2_Witness ==
    /\ pc = "done"
    /\ \E i, j \in 1..Len(layoutLocs) :
          /\ layoutLocs[i] = "Paris, France"
          /\ layoutLocs[j] # "Paris, France"
          /\ NormalizeText(layoutLocs[j]) = "Paris, France"
    /\ \E i, j \in 1..Len(records) :
          /\ records[i].location_text = "Paris, France"
          /\ records[j].location_text = "paris, france"

\* C3 as stated: the candidate list never holds fallback phrases together
\* with markup, DOM heading or layout phrases.
C3_AsStated ==
    Len(fallbackLocs) > 0 =>
        Len(wikiLocations) = 0 /\ Len(domLocs) = 0 /\ Len(layoutLocs) = 0

\* C3 (amended): the fallback scan runs only when the DOM heading and layout
\* strategies found nothing, so the candidate list never holds fallback
\* phrases together with DOM heading or layout phrases (markup phrases may
\* still be put in front of them).
C3_FallbackOnlyWhenEmpty ==
    Len(fallbackLocs) > 0 => Len(domLocs) = 0 /\ Len(layoutLocs) = 0

\* C3 witness: a finished run whose fallback scan found phrases
C3_Witness == pc = "done" /\ Len(fallbackLocs) > 0 /\ Len(records) > 0

\* C4 as stated: when the DOM heading strategy found a phrase, the layout
\* strategy adds none, whatever the URL.
C4_AsStated == Len(domLocs) > 0 => Len(layoutLocs) = 0

\* C4 (amended): when the DOM heading strategy found a phrase and the URL
\* does not match the locations-listing pattern, the layout strategy adds
\* no phrase.
C4_LayoutShortCircuit ==
    (page # 0 /\ Len(domLocs) > 0 /\ ~IsImdbLocationsUrl(url)) => Len(layoutLocs) = 0

\* C4 witness: a finished run on a page with a #filmingLocations container
\* whose heading section gave phrases, under a URL outside the pattern
C4_Witness ==
    /\ pc = "done"
    /\ HasContainer(Pages[page].doc)
    /\ ~IsImdbLocationsUrl(url)
    /\ Len(domLocs) > 0
    /\ Len(layoutLocs) = 0

\* C5: every record has latitude null if and only if longitude is null.
C5_BothOrNeither ==
    Len(records) > 0 => ((LastRecord.latitude = Null) <=> (LastRecord.longitude = Null))

\* C6: at most 200 records are pushed, their location_text values are the
\* first min(|N|, 200) entries of the normalized list N in order, and the
\* audit snapshot's extracted_locations is the first min(|N|, 500) entries
\* of N.
C6_Caps ==
    /\ Len(records) <= 200
    /\ Len(records) <= Len(normalized)
    /\ LoopDone => Len(records) = Min(Len(normalized), 200)
    /\ Len(records) > 0 => LastRecord.location_text = normalized[Len(records)]
    /\ audit # Null =>
          audit[1].extracted_locations = SubSeq(normalized, 1, Min(Len(normalized), 500))

\* C6 witness: a finished run with more than 500 normalized phrases, 200
\* records and a stored snapshot of 500
C6_Witness ==
    /\ pc = "done"
    /\ Len(normalized) > 500
    /\ Len(records) = 200
    /\ audit # Null
    /\ Len(audit[1].extracted_locations) = 500

\* C7: when the raw-markup fetch fails or never answers, the run goes on as
\* with no raw markup (nothing is put in front of the DOM candidates) and
\* does not fail.
C7_FetchDegrades ==
    fetched \in {"notok", "error", "timeout"} =>
        /\ pc # "failed"
        /\ wikitext = Null
        /\ locations = domLocs \o layoutLocs \o fallbackLocs

\* the comma-split segments of a phrase, trimmed
Segments(text) == MapTrim(SplitChar(text, ","))

\* the segments of a phrase that are not empty
FilledSegments(text) == SelectSeq(Segments(text), NonEmpty)

\* city, region, country as the rule derives them from segments
FieldsAgree(r, segs) ==
    /\ Len(segs) = 0 => r.city = "" /\ r.region = "" /\ r.country = ""
    /\ Len(segs) = 1 => r.city = segs[1] /\ r.region = "" /\ r.country = ""
    /\ Len(segs) = 2 => r.city = segs[1] /\ r.region = "" /\ r.country = segs[2]
    /\ Len(segs) >= 3 =>
          /\ r.city = segs[1]
          /\ r.region = segs[2]
          /\ r.country = join(SubSeq(segs, 3, Len(segs)), ", ")

\* C8 as stated: the fields follow the rule on the comma-split segments of
\* the phrase, empty segments between commas included.
C8_AsStated ==
    Len(records) > 0 => FieldsAgree(LastRecord, Segments(LastRecord.location_text))

\* C8 (amended): the fields follow the rule on the non-empty trimmed
\* segments of the phrase: none gives three empty fields, 1 gives city, 2
\* give city and country, 3 or more give city, region and the rest joined
\* with ", " as country.
C8_FieldsFromFilledSegments ==
    Len(records) > 0 => FieldsAgree(LastRecord, FilledSegments(LastRecord.location_text))

\* C8 witness: the record of a phrase with an empty segment between commas
C8_Witness ==
    /\ Len(records) > 0
    /\ LastRecord.location_text = "Rome,, Lazio, Italy"
    /\ LastRecord.region = "Lazio"
    /\ LastRecord.country = "Italy"

\* C9: with validateCoordinates enabled no record has a latitude outside
\* [-90, 90].
C9_ValidatedLatitude ==
    (validateCoordinates /\ Len(records) > 0 /\ LastRecord.latitude # Null) =>
        /\ LastRecord.latitude[1] <= 90 * Unit
        /\ LastRecord.latitude[1] >= 0 - 90 * Unit

\* the internal-link rewrite as C10 words it: the display text when there is
\* one, otherwise the target
RECURSIVE PreferDisplayLoop(_, _, _)
PreferDisplayLoop(s, i, out) ==
    LET j == NextMatch({k \in 1..Len(s) : InternalLinkAt(s, k).ok}, i)
        m == InternalLinkAt(s, j)
    IN  IF j = 0 THEN out \o SubSeq(s, i, Len(s))
        ELSE PreferDisplayLoop(s, m.end,
                               out \o SubSeq(s, i, j - 1)
                                   \o (IF m.g2 # "" THEN m.g2 ELSE m.g1))

\* C10: every internal link of the Filming locations section becomes its
\* display text alone, or its target alone when it has no display text.
C10_DisplayOrTarget ==
    (wikitext # Null /\ SectionOf(wikitext[1]) # Null) =>
        wikiLocations = HitsOf(PreferDisplayLoop(StripMarkup(SectionOf(wikitext[1])[1]), 1, ""))

====
